---- MODULE Spec2Model ----
(***************************************************************************)
(* Model of ddddocr-core: the OCR decoder with its character filter        *)
(* (OCRBase, src/src/OcrBase.js and its TypeScript twin) and the detection *)
(* post-processing (DetectionBase, src/src/DetectionBase.js).              *)
(*                                                                         *)
(* A JavaScript string is a sequence of one-character strings, a Set of    *)
(* characters is a set of one-character strings, and an array is a         *)
(* sequence; JavaScript index k is position k + 1 of the sequence.         *)
(***************************************************************************)
EXTENDS Integers, Sequences, FiniteSets, TLC

VARIABLES
    validCharSet,    \* OCRBase._validCharSet
    inValidCharSet,  \* OCRBase._inValidCharSet
    op,              \* the last method called on the OCRBase instance
    arg,             \* that call's argument (a JavaScript value), for a configuration call
    threw,           \* whether that call ended in `throw new Error(...)`
    argmaxData,      \* that call's index sequence, for a decode
    charset,         \* that call's charset array, for a decode
    result,          \* the string that call returned, for a decode
    pc,              \* where the detection call stands: "idle", "call", "loop", "done"
    boxes,           \* _multiclassNmsClassAgnostic: the boxes handed in, [x1, y1, x2, y2] each
    scores,          \* its scores, in hundredths
    nmsThr,          \* its nmsThr, a fraction <<numerator, denominator>>
    validBoxes,      \* its validBoxes, which are _nms's boxes
    validScores,     \* its validScores, which are _nms's scores
    order,           \* _nms: the local order
    keep,            \* _nms: the local keep
    detections,      \* _multiclassNmsClassAgnostic: the boxes returned
    fn,              \* the DetectionBase method called on its own: "none" or its name
    stage,           \* where that call stands: "idle", "call", ..., "return" or "throw"
    args,            \* its arguments
    ret              \* what it has computed so far, and returns

ocrVars == <<validCharSet, inValidCharSet, op, arg, threw, argmaxData, charset, result>>

detVars == <<pc, boxes, scores, nmsThr, validBoxes, validScores, order, keep, detections>>

fnVars == <<fn, stage, args, ret>>

vars == <<ocrVars, detVars, fnVars>>

----------------------------------------------------------------------------
(* Bounds *)

\* longest index sequence handed to the decoder (besides ExampleSeq)
MaxLen == 3
\* longest custom string handed to a configuration call (besides ExampleStr)
MaxStr == 1
\* most boxes handed to the detection post-processing
MaxBoxes == 3
\* most boxes handed to the clipping
MaxPred == 2
\* most boxes handed to the corner conversion
MaxRows == 2

----------------------------------------------------------------------------
(* Generic helpers *)

Range(s) == {s[k] : k \in 1..Len(s)}

SeqsUpTo(S, n) == UNION {[1..k -> S] : k \in 0..n}

----------------------------------------------------------------------------
(* OcrBase.js: the character-set literals *)

NUM_CASE == <<"0", "1", "2", "3", "4", "5", "6", "7", "8", "9">>

LOWWER_CASE ==
    <<"a", "b", "c", "d", "e", "f", "g", "h", "i", "j", "k", "l", "m",
      "n", "o", "p", "q", "r", "s", "t", "u", "v", "w", "x", "y", "z">>

UPPER_CASE ==
    <<"A", "B", "C", "D", "E", "F", "G", "H", "I", "J", "K", "L", "M",
      "N", "O", "P", "Q", "R", "S", "T", "U", "V", "W", "X", "Y", "Z">>

MIX_LOWWER_UPPER_CASE == LOWWER_CASE \o UPPER_CASE

MIX_LOWWER_NUM_CASE == LOWWER_CASE \o NUM_CASE

MIX_UPPER_NUM_CASE == UPPER_CASE \o NUM_CASE

MIX_LOWER_UPPER_NUM_CASE == LOWWER_CASE \o UPPER_CASE \o NUM_CASE

\* `new Set(charset)` of a string: the set of its characters
NewSet(str) == Range(str)

\* `set.has(char)` where char is any string: a Set of characters holds only
\* one-character strings
Has(set, char) == Len(char) = 1 /\ char[1] \in set

----------------------------------------------------------------------------
(* JavaScript values handed to setRanges: typeof, a number, a string *)

JsNumber(n) == [t |-> "number", n |-> n, s |-> <<>>]

JsString(s) == [t |-> "string", n |-> 0, s |-> s]

JsOther(t) == [t |-> t, n |-> 0, s |-> <<>>]

NoArg == JsOther("undefined")

\* characters the custom strings are made of: a letter, a digit, a symbol
Alphabet == {"a", "3", "-"}

ExampleStr == <<"a", "b", "3">>

CustomStrings == SeqsUpTo(Alphabet, MaxStr) \cup {ExampleStr}

Numbers == (-1..9) \cup {99}

RangeArgs ==
    {JsNumber(n) : n \in Numbers}
        \cup {JsString(s) : s \in CustomStrings}
        \cup {JsOther("boolean"), JsOther("undefined"), JsOther("object")}

----------------------------------------------------------------------------
(* Charset arrays and index sequences handed to the decoder.  Entry 0 of a  *)
(* charset is the blank; every entry is a character or the empty string.    *)

CharsetA == << <<>>, <<"a">>, <<"b">>, <<"c">>, <<"d">>, <<"e">> >>

CharsetB == << <<>>, <<"3">>, <<"-">>, <<"A">>, <<>>, <<"3">> >>

Charsets == {CharsetA, CharsetB}

ExampleSeq == <<0, 0, 3, 3, 0, 5, 5, 5, 3>>

\* the indices of the bounded sequences: the blank and two characters
Indices == {0, 1, 2}

ArgmaxInputs == SeqsUpTo(Indices, MaxLen) \cup {ExampleSeq}

----------------------------------------------------------------------------
(* OCRBase *)

\* _isValidChar(char)
IsValidCharAllowFirst(valid, invalid, char) ==
    IF Has(valid, char) THEN TRUE
    ELSE IF Has(invalid, char) THEN FALSE
    ELSE Cardinality(valid) = 0

IsValidChar(valid, invalid, char) ==
    IF Has(invalid, char) THEN FALSE
    ELSE IF Cardinality(valid) = 0 THEN TRUE
    ELSE Has(valid, char)

\* The loop of _parseToChar from position i (JavaScript index), with the
\* local lastItem and the array `result` so far; result.join('') at the end.
RECURSIVE ParseLoopStickyLast(_, _, _, _, _, _, _)
ParseLoopStickyLast(valid, invalid, data, cs, i, lastItem, acc) ==
    IF i >= Len(data) THEN acc
    ELSE IF data[i + 1] = lastItem
    THEN ParseLoopStickyLast(valid, invalid, data, cs, i + 1, lastItem, acc)
    ELSE LET char == cs[data[i + 1] + 1]
             emit == data[i + 1] # 0 /\ IsValidChar(valid, invalid, char)
         IN  ParseLoopStickyLast(valid, invalid, data, cs, i + 1,
                                 IF emit THEN data[i + 1] ELSE lastItem,
                                 IF emit THEN acc \o char ELSE acc)

RECURSIVE ParseLoop(_, _, _, _, _, _, _)
ParseLoop(valid, invalid, data, cs, i, lastItem, acc) ==
    IF i >= Len(data) THEN acc
    ELSE IF data[i + 1] = lastItem
    THEN ParseLoop(valid, invalid, data, cs, i + 1, lastItem, acc)
    ELSE LET char == cs[data[i + 1] + 1]
         IN  ParseLoop(valid, invalid, data, cs, i + 1, data[i + 1],
                       IF data[i + 1] # 0 /\ IsValidChar(valid, invalid, char)
                       THEN acc \o char
                       ELSE acc)

\* _parseToChar(argmaxData, charset)
ParseToCharGlobalDedup(valid, invalid, data, cs) ==
    LET RECURSIVE Go(_, _, _)
        Go(i, seen, acc) ==
            IF i >= Len(data) THEN acc
            ELSE LET x == data[i + 1]
                 IN  IF x \in seen \/ x = 0 \/ ~IsValidChar(valid, invalid, cs[x + 1])
                     THEN Go(i + 1, seen, acc)
                     ELSE Go(i + 1, seen \cup {x}, acc \o cs[x + 1])
    IN  Go(0, {}, <<>>)

ParseToChar(valid, invalid, data, cs) ==
    ParseLoop(valid, invalid, data, cs, 0, 0, <<>>)

\* constructor: both sets are `new Set([])`
OcrInit ==
    /\ validCharSet = {}
    /\ inValidCharSet = {}
    /\ op = "constructor"
    /\ arg = NoArg
    /\ threw = FALSE
    /\ argmaxData = <<>>
    /\ charset = CharsetA
    /\ result = <<>>

\* the record of a call that is no decode
NoDecode ==
    /\ argmaxData' = <<>>
    /\ charset' = CharsetA
    /\ result' = <<>>

\* setValidCharSet(charset)
SetValidCharSet(str) ==
    /\ validCharSet' = NewSet(str)
    /\ op' = "setValidCharSet"
    /\ arg' = JsString(str)
    /\ threw' = FALSE
    /\ NoDecode
    /\ UNCHANGED <<inValidCharSet, detVars, fnVars>>

\* setInValidCharset(charset)
SetInValidCharset(str) ==
    /\ inValidCharSet' = NewSet(str)
    /\ op' = "setInValidCharset"
    /\ arg' = JsString(str)
    /\ threw' = FALSE
    /\ NoDecode
    /\ UNCHANGED <<validCharSet, detVars, fnVars>>

\* setRanges(charsetRange): what the two switch statements select.
\* kind "valid" / "invalid": the setter called, with its string; "throw".
RangesCaseSwapped45(x) ==
    IF x.t = "number" THEN
        CASE x.n = 0 -> [kind |-> "valid", str |-> NUM_CASE]
          [] x.n = 1 -> [kind |-> "valid", str |-> LOWWER_CASE]
          [] x.n = 2 -> [kind |-> "valid", str |-> UPPER_CASE]
          [] x.n = 3 -> [kind |-> "valid", str |-> MIX_LOWWER_UPPER_CASE]
          [] x.n = 4 -> [kind |-> "valid", str |-> MIX_UPPER_NUM_CASE]
          [] x.n = 5 -> [kind |-> "valid", str |-> MIX_LOWWER_NUM_CASE]
          [] x.n = 6 -> [kind |-> "valid", str |-> MIX_LOWER_UPPER_NUM_CASE]
          [] x.n = 7 -> [kind |-> "invalid", str |-> MIX_LOWER_UPPER_NUM_CASE]
          [] OTHER -> [kind |-> "throw", str |-> <<>>]
    ELSE IF x.t = "string" THEN [kind |-> "valid", str |-> x.s]
    ELSE [kind |-> "throw", str |-> <<>>]

RangesCaseDefaultDigits(x) ==
    IF x.t = "number" THEN
        CASE x.n = 1 -> [kind |-> "valid", str |-> LOWWER_CASE]
          [] x.n = 2 -> [kind |-> "valid", str |-> UPPER_CASE]
          [] x.n = 3 -> [kind |-> "valid", str |-> MIX_LOWWER_UPPER_CASE]
          [] x.n = 4 -> [kind |-> "valid", str |-> MIX_LOWWER_NUM_CASE]
          [] x.n = 5 -> [kind |-> "valid", str |-> MIX_UPPER_NUM_CASE]
          [] x.n = 6 -> [kind |-> "valid", str |-> MIX_LOWER_UPPER_NUM_CASE]
          [] x.n = 7 -> [kind |-> "invalid", str |-> MIX_LOWER_UPPER_NUM_CASE]
          [] OTHER -> [kind |-> "valid", str |-> NUM_CASE]
    ELSE IF x.t = "string" THEN [kind |-> "valid", str |-> x.s]
    ELSE [kind |-> "throw", str |-> <<>>]

RangesCase(x) ==
    IF x.t = "number" THEN
        CASE x.n = 0 -> [kind |-> "valid", str |-> NUM_CASE]
          [] x.n = 1 -> [kind |-> "valid", str |-> LOWWER_CASE]
          [] x.n = 2 -> [kind |-> "valid", str |-> UPPER_CASE]
          [] x.n = 3 -> [kind |-> "valid", str |-> MIX_LOWWER_UPPER_CASE]
          [] x.n = 4 -> [kind |-> "valid", str |-> MIX_LOWWER_NUM_CASE]
          [] x.n = 5 -> [kind |-> "valid", str |-> MIX_UPPER_NUM_CASE]
          [] x.n = 6 -> [kind |-> "valid", str |-> MIX_LOWER_UPPER_NUM_CASE]
          [] x.n = 7 -> [kind |-> "invalid", str |-> MIX_LOWER_UPPER_NUM_CASE]
          [] OTHER -> [kind |-> "throw", str |-> <<>>]
    ELSE IF x.t = "string" THEN [kind |-> "valid", str |-> x.s]
    ELSE [kind |-> "throw", str |-> <<>>]

SetRangesClearsOther(x) ==
    LET c == RangesCase(x)
    IN  /\ op' = "setRanges"
        /\ arg' = x
        /\ threw' = (c.kind = "throw")
        /\ validCharSet' = CASE c.kind = "valid" -> NewSet(c.str)
                             [] c.kind = "invalid" -> {}
                             [] OTHER -> validCharSet
        /\ inValidCharSet' = CASE c.kind = "invalid" -> NewSet(c.str)
                               [] c.kind = "valid" -> {}
                               [] OTHER -> inValidCharSet
        /\ NoDecode
        /\ UNCHANGED <<detVars, fnVars>>

\* setRanges(charsetRange)
SetRanges(x) ==
    LET c == RangesCase(x)
    IN  /\ op' = "setRanges"
        /\ arg' = x
        /\ threw' = (c.kind = "throw")
        /\ validCharSet' = IF c.kind = "valid" THEN NewSet(c.str) ELSE validCharSet
        /\ inValidCharSet' = IF c.kind = "invalid" THEN NewSet(c.str) ELSE inValidCharSet
        /\ NoDecode
        /\ UNCHANGED <<detVars, fnVars>>

\* postProcess(cpuData, dims, charset), from the arg-max of the tensor on:
\* result = this._parseToChar(argmaxData, charset)
PostProcess(data, cs) ==
    /\ op' = "postProcess"
    /\ arg' = NoArg
    /\ threw' = FALSE
    /\ argmaxData' = data
    /\ charset' = cs
    /\ result' = ParseToChar(validCharSet, inValidCharSet, data, cs)
    /\ UNCHANGED <<validCharSet, inValidCharSet, detVars, fnVars>>

----------------------------------------------------------------------------
(* Inputs of the detection post-processing.  Coordinates are whole pixels,  *)
(* scores are hundredths, thresholds are fractions.                         *)

\* a unit box, boxes that contain it, a unit box apart from it, and a box
\* that overlaps the others partly
BoxPool ==
    { <<0, 0, 0, 0>>, <<0, 0, 1, 0>>, <<0, 0, 1, 1>>,
      <<1, 1, 1, 1>>, <<1, 0, 1, 1>> }

\* a score equal to the score threshold and two above it
ScorePool == {10, 80, 90}

\* _postProcess: this._multiclassNms(boxesXyxy, scores, 0.45, 0.1)
NmsThrDefault == <<45, 100>>

ScoreThr == 10

\* the default and a threshold that some pair of boxes meets exactly
NmsThrs == {NmsThrDefault, <<1, 2>>}

----------------------------------------------------------------------------
(* utils/array-utils: argSort *)

\* the position (JavaScript index) at which index i stands after a stable
\* sort by descending score
Rank(sc, i) ==
    Cardinality({j \in 0..(Len(sc) - 1) :
                    sc[j + 1] > sc[i + 1] \/ (sc[j + 1] = sc[i + 1] /\ j < i)})

\* argSort(scores): the indices by descending score, equal scores in index order
ArgSort(sc) ==
    [k \in 1..Len(sc) |-> CHOOSE i \in 0..(Len(sc) - 1) : Rank(sc, i) = k - 1]

----------------------------------------------------------------------------
(* DetectionBase *)

Max(a, b) == IF a >= b THEN a ELSE b

Min(a, b) == IF a <= b THEN a ELSE b

\* _nms: areas = (x2 - x1 + 1) * (y2 - y1 + 1), one per box, in input order
Areas(bs) == [k \in 1..Len(bs) |-> (bs[k][3] - bs[k][1] + 1) * (bs[k][4] - bs[k][2] + 1)]

\* _nms: inter = w * h of the box at order[0] and the box at order[k], k >= 1
InterNoClamp(bs, ord, k) ==
    LET a == bs[ord[1] + 1]
        b == bs[ord[k + 1] + 1]
        w == Min(a[3], b[3]) - Max(a[1], b[1]) + 1
        h == Min(a[4], b[4]) - Max(a[2], b[2]) + 1
    IN  w * h

Inter(bs, ord, k) ==
    LET a == bs[ord[1] + 1]
        b == bs[ord[k + 1] + 1]
        w == Max(0, Min(a[3], b[3]) - Max(a[1], b[1]) + 1)
        h == Max(0, Min(a[4], b[4]) - Max(a[2], b[2]) + 1)
    IN  w * h

\* _nms: ovr = inter / (areas.slice(0, 1) + gather(areas, order).slice(1) - inter),
\* one fraction <<inter, divisor>> per candidate order[1], order[2], ...;
\* areas.slice(0, 1) is the area of the box at input index 0
Ovr(bs, ord) ==
    [k \in 1..(Len(ord) - 1) |->
        <<Inter(bs, ord, k),
          Areas(bs)[1] + Areas(bs)[ord[k + 1] + 1] - Inter(bs, ord, k)>>]

\* ovr[i] <= nmsThr, for a positive divisor
AtMost(q, thr) == q[1] * thr[2] <= thr[1] * q[2]

\* _where(ovr, nmsThr): the indices i (from 0) with ovr[i] <= nmsThr, ascending
RECURSIVE WhereFrom(_, _, _)
WhereFrom(ovr, thr, i) ==
    IF i >= Len(ovr) THEN <<>>
    ELSE (IF AtMost(ovr[i + 1], thr) THEN <<i>> ELSE <<>>) \o WhereFrom(ovr, thr, i + 1)

Where(ovr, thr) == WhereFrom(ovr, thr, 0)

\* _nms: order = gather(orderTensor, inds + 1)
GatherNoShift(ord, inds) == [k \in 1..Len(inds) |-> ord[inds[k] + 1]]

Gather(ord, inds) == [k \in 1..Len(inds) |-> ord[(inds[k] + 1) + 1]]

\* _multiclassNmsClassAgnostic: the indices i (from 0) with clsScores[i] > scoreThr
RECURSIVE ValidFromAtLeast(_, _, _)
ValidFromAtLeast(sc, thr, i) ==
    IF i >= Len(sc) THEN <<>>
    ELSE (IF sc[i + 1] >= thr THEN <<i>> ELSE <<>>) \o ValidFromAtLeast(sc, thr, i + 1)

RECURSIVE ValidFrom(_, _, _)
ValidFrom(sc, thr, i) ==
    IF i >= Len(sc) THEN <<>>
    ELSE (IF sc[i + 1] > thr THEN <<i>> ELSE <<>>) \o ValidFrom(sc, thr, i + 1)

\* no detection call on the instance
DetIdle ==
    /\ pc = "idle"
    /\ boxes = <<>>
    /\ scores = <<>>
    /\ nmsThr = NmsThrDefault
    /\ validBoxes = <<>>
    /\ validScores = <<>>
    /\ order = <<>>
    /\ keep = <<>>
    /\ detections = <<>>

\* _multiclassNmsClassAgnostic(boxes, scores, nmsThr, scoreThr) is entered
DetCall ==
    /\ pc = "call"
    /\ \E n \in 0..MaxBoxes :
          /\ boxes \in [1..n -> BoxPool]
          /\ scores \in [1..n -> ScorePool]
    /\ nmsThr \in NmsThrs
    /\ validBoxes = <<>>
    /\ validScores = <<>>
    /\ order = <<>>
    /\ keep = <<>>
    /\ detections = <<>>

\* _multiclassNmsClassAgnostic up to its call of _nms, and _nms up to its loop
MulticlassNmsFilter ==
    /\ pc = "call"
    /\ LET idx == ValidFrom(scores, ScoreThr, 0)
           vs == [k \in 1..Len(idx) |-> scores[idx[k] + 1]]
       IN  /\ validScores' = vs
           /\ validBoxes' = [k \in 1..Len(idx) |-> boxes[idx[k] + 1]]
           /\ order' = ArgSort(vs)
    /\ keep' = <<>>
    /\ pc' = "loop"
    /\ UNCHANGED <<boxes, scores, nmsThr, detections, ocrVars, fnVars>>

\* _nms: one pass of `while (order.length > 0)`
NmsRound ==
    /\ pc = "loop"
    /\ Len(order) > 0
    /\ keep' = Append(keep, order[1])
    /\ order' = Gather(order, Where(Ovr(validBoxes, order), nmsThr))
    /\ UNCHANGED <<pc, boxes, scores, nmsThr, validBoxes, validScores, detections, ocrVars, fnVars>>

\* _nms returns keep, and _multiclassNmsClassAgnostic collects the kept boxes
NmsReturn ==
    /\ pc = "loop"
    /\ Len(order) = 0
    /\ detections' = [k \in 1..Len(keep) |-> validBoxes[keep[k] + 1]]
    /\ pc' = "done"
    /\ UNCHANGED <<boxes, scores, nmsThr, validBoxes, validScores, order, keep, ocrVars, fnVars>>

----------------------------------------------------------------------------
(* DetectionBase methods called on their own *)

\* no such call
FnIdle ==
    /\ fn = "none"
    /\ stage = "idle"
    /\ args = <<>>
    /\ ret = <<>>

----------------------------------------------------------------------------
(* _parseToXyxy.  A coordinate is a JavaScript number: a sign, a whole part  *)
(* and a fraction in units of 1e-7.                                         *)

FracDen == 10 * 1000 * 1000

JsNum(neg, whole, frac) == [neg |-> neg, whole |-> whole, frac |-> frac]

\* x < 0
LessThanZero(x) == x.neg /\ (x.whole > 0 \/ x.frac > 0)

\* x > n, for a whole n >= 0
GreaterThan(x, n) == ~x.neg /\ (x.whole > n \/ (x.whole = n /\ x.frac > 0))

\* Number::toString writes a non-zero number below 1e-6 in exponent form
\* ("3e-7"), any other number of this range in decimal form ("1.5", "-5")
ExponentForm(x) == x.whole = 0 /\ x.frac > 0 /\ x.frac < FracDen \div (1000 * 1000)

\* parseInt(x) of a number: the whole number that starts String(x)
ParseInt(x) ==
    LET digits == IF ExponentForm(x) THEN x.frac  \* "3e-7": the digit before the e
                  ELSE x.whole
    IN  IF x.neg THEN -digits ELSE digits

\* _parseToXyxy: one pass of the loop, the box pushed for prediction[i]
ClipBox(b, width, height) ==
    << IF LessThanZero(b[1]) THEN 0 ELSE ParseInt(b[1]),
       IF LessThanZero(b[2]) THEN 0 ELSE ParseInt(b[2]),
       IF GreaterThan(b[3], width) THEN width ELSE ParseInt(b[3]),
       IF GreaterThan(b[4], height) THEN height ELSE ParseInt(b[4]) >>

\* _parseToXyxy(prediction, width, height)
ParseToXyxy(prediction, width, height) ==
    [i \in 1..Len(prediction) |-> ClipBox(prediction[i], width, height)]

\* a <= b
NumLeq(a, b) ==
    IF a.neg # b.neg THEN a.neg
    ELSE IF a.neg
    THEN a.whole > b.whole \/ (a.whole = b.whole /\ a.frac >= b.frac)
    ELSE a.whole < b.whole \/ (a.whole = b.whole /\ a.frac <= b.frac)

\* -5, -3e-7, 0, 3e-7, 1.5, 500
XPool ==
    { JsNum(TRUE, 5, 0), JsNum(TRUE, 0, 3), JsNum(FALSE, 0, 0),
      JsNum(FALSE, 0, 3), JsNum(FALSE, 1, FracDen \div 2), JsNum(FALSE, 500, 0) }

\* -5, 1.5, 500
YPool == { JsNum(TRUE, 5, 0), JsNum(FALSE, 1, FracDen \div 2), JsNum(FALSE, 500, 0) }

\* decoded boxes: x1 <= x2 and y1 <= y2
ClipBoxes ==
    { <<x1, y1, x2, y2>> : x1 \in XPool, y1 \in YPool, x2 \in XPool, y2 \in YPool }

OrderedClipBoxes == { b \in ClipBoxes : NumLeq(b[1], b[3]) /\ NumLeq(b[2], b[4]) }

\* image sizes <<width, height>>
ImageSizes == { <<416, 416>>, <<2, 1>> }

InitClip ==
    /\ OcrInit
    /\ DetIdle
    /\ fn = "_parseToXyxy"
    /\ stage = "call"
    /\ \E n \in 0..MaxPred, size \in ImageSizes :
          args \in [prediction : [1..n -> OrderedClipBoxes],
                    width : {size[1]}, height : {size[2]}]
    /\ ret = <<>>

\* _parseToXyxy runs and returns result
ParseToXyxyCall ==
    /\ fn = "_parseToXyxy"
    /\ stage = "call"
    /\ ret' = ParseToXyxy(args.prediction, args.width, args.height)
    /\ stage' = "return"
    /\ UNCHANGED <<fn, args, ocrVars, detVars>>

NextClip == ParseToXyxyCall

SpecClip == InitClip /\ [][NextClip]_vars

----------------------------------------------------------------------------
(* _calcBbox.  Centre-form boxes have whole coordinates, ratio is a          *)
(* fraction <<p, q>> = p / q, and a result is a fraction <<n, d>> = n / d.   *)

\* (boxes[0] - boxes[2] / 2) and its three siblings, before `/ ratio`
CornerForm(b) ==
    << <<2 * b[1] - b[3], 2>>, <<2 * b[2] - b[4], 2>>,
       <<2 * b[1] + b[3], 2>>, <<2 * b[2] + b[4], 2>> >>

\* x / ratio
TimesRatio(x, ratio) == <<x[1] * ratio[1], x[2] * ratio[2]>>

OverRatio(x, ratio) == <<x[1] * ratio[2], x[2] * ratio[1]>>

\* _calcBbox(boxes, ratio)
CalcBbox(bs, ratio) ==
    [i \in 1..Len(bs) |->
        [c \in 1..4 |-> OverRatio(CornerForm(bs[i])[c], ratio)]]

\* [cx, cy, w, h]
CentreBoxes == { <<cx, cy, w, h>> : cx \in {0, 100}, cy \in {33, 100}, w \in {7, 40}, h \in {0, 20} }

\* 0.5, 1, 0.65
Ratios == { <<1, 2>>, <<1, 1>>, <<13, 20>> }

InitBbox ==
    /\ OcrInit
    /\ DetIdle
    /\ fn = "_calcBbox"
    /\ stage = "call"
    /\ \E n \in 0..MaxRows : args \in [boxes : [1..n -> CentreBoxes], ratio : Ratios]
    /\ ret = <<>>

\* _calcBbox runs and returns resultTensor
CalcBboxCall ==
    /\ fn = "_calcBbox"
    /\ stage = "call"
    /\ ret' = CalcBbox(args.boxes, args.ratio)
    /\ stage' = "return"
    /\ UNCHANGED <<fn, args, ocrVars, detVars>>

NextBbox == CalcBboxCall

SpecBbox == InitBbox /\ [][NextBbox]_vars

----------------------------------------------------------------------------
(* _demoPostProcess and the scores of _postProcess.  An anchor row is        *)
(* [cx, cy, w, h, objectness, class0, ...]: cx, cy, w, h whole numbers,      *)
(* objectness and class probabilities in hundredths.  Math.exp is a table   *)
(* in thousandths, so decoded w and h are in thousandths.                   *)

\* const strides = [8, 16, 32]
Strides == <<8, 16, 32>>

\* the grid of one stride: for (y ...) for (x ...) grid.push([xv[x], yv[y]])
RECURSIVE GridXOuterFrom(_, _, _)
GridXOuterFrom(x, hsize, wsize) ==
    IF x >= wsize THEN <<>>
    ELSE [y \in 1..hsize |-> <<x, y - 1>>] \o GridXOuterFrom(x + 1, hsize, wsize)

GridXOuter(hsize, wsize) == GridXOuterFrom(0, hsize, wsize)

RECURSIVE GridFrom(_, _, _)
GridFrom(y, hsize, wsize) ==
    IF y >= hsize THEN <<>>
    ELSE [x \in 1..wsize |-> <<x - 1, y>>] \o GridFrom(y + 1, hsize, wsize)

Grid(hsize, wsize) == GridFrom(0, hsize, wsize)

\* grids[i]: hSizes from imageSize[0], wSizes from imageSize[1]
GridOfStride(imageSize, i) ==
    Grid(imageSize[1] \div Strides[i], imageSize[2] \div Strides[i])

\* flatGrids = grids.flat()
FlatGrids(imageSize) ==
    GridOfStride(imageSize, 1) \o GridOfStride(imageSize, 2) \o GridOfStride(imageSize, 3)

\* flatExpandedStrides = expandedStrides.flat(), each entry [stride]
FlatExpandedStrides(imageSize) ==
    [k \in 1..Len(GridOfStride(imageSize, 1)) |-> <<Strides[1]>>]
        \o [k \in 1..Len(GridOfStride(imageSize, 2)) |-> <<Strides[2]>>]
        \o [k \in 1..Len(GridOfStride(imageSize, 3)) |-> <<Strides[3]>>]

\* Math.exp, in thousandths
ExpMilli(x) == CASE x = 0 -> 1000 [] x = 1 -> 2718 [] x = -1 -> 368

\* tf.reshape(tensor, dims) throws unless the element count is the product of dims
ReshapeFits(cpuData, dims) == Len(cpuData) = dims[1] * dims[2] * dims[3]

\* outputs[0][j] of the reshaped tensor, j from 0
RowOf(cpuData, dims, j) == [a \in 1..dims[3] |-> cpuData[j * dims[3] + a]]

\* function adjustBoundingBoxCoordinates(output, grid, expandedStride)
AdjustBoundingBoxCoordinates(output, grid, expandedStride) ==
    (output + grid) * expandedStride

\* the body of the loop over j: the row written back to outputs[0][j]
DecodedRow(row, grid, expandedStride) ==
    [a \in 1..Len(row) |->
        CASE a = 1 -> AdjustBoundingBoxCoordinates(row[1], grid[1], expandedStride)
          [] a = 2 -> AdjustBoundingBoxCoordinates(row[2], grid[2], expandedStride)
          [] a = 3 -> ExpMilli(row[3]) * expandedStride
          [] a = 4 -> ExpMilli(row[4]) * expandedStride
          [] OTHER -> row[a]]

\* _demoPostProcess(cpuData, dims, imageSize): how it ends.  The loop reads
\* flatGrids[j] and flatExpandedStrides[j][0]; past the last cell the first is
\* undefined and the second read throws a TypeError.
DemoPostProcess(cpuData, dims, imageSize) ==
    LET cells == Len(FlatGrids(imageSize))
        w == dims[2]
        done == IF w <= cells THEN w ELSE cells
        rows == [j \in 1..done |->
                    DecodedRow(RowOf(cpuData, dims, j - 1),
                               FlatGrids(imageSize)[j],
                               FlatExpandedStrides(imageSize)[j][1])]
    IN  IF ~ReshapeFits(cpuData, dims)
        THEN [outcome |-> "throw", error |-> "shape", rowsIndexed |-> 0,
              outOfBounds |-> FALSE, predictions |-> <<>>]
        ELSE IF w > cells
        THEN [outcome |-> "throw", error |-> "TypeError", rowsIndexed |-> done,
              outOfBounds |-> TRUE, predictions |-> <<>>]
        ELSE [outcome |-> "return", error |-> "none", rowsIndexed |-> done,
              outOfBounds |-> FALSE, predictions |-> rows]

\* _postProcess: scores = predictions.slice([0, 4], [-1, 1]).mul(
\*                            predictions.slice([0, 5], [-1, 1])), in 1/10000
Scores(predictions) ==
    [j \in 1..Len(predictions) |-> predictions[j][5] * predictions[j][6]]

\* canvases [height, width]: 2, 7 and 25 cells
Canvases == { <<8, 16>>, <<20, 24>>, <<32, 40>> }

\* [cx, cy, w, h, objectness]
RowHeads == { <<0, 0, 0, 0, 90>>, <<1, 2, 1, 0, 50>>, <<-1, 3, 0, -1, 5>> }

\* class probabilities of a row with c attributes
RowTails(c) == IF c = 6 THEN { <<80>>, <<100>> } ELSE { <<10, 80>>, <<80, 10>> }

RowPool(c) == { head \o tail : head \in RowHeads, tail \in RowTails(c) }

\* n rows, the even ones (from 0) rowA and the odd ones rowB, flattened
FlatRows(n, c, rowA, rowB) ==
    [e \in 1..(n * c) |->
        LET j == (e - 1) \div c
            a == ((e - 1) % c) + 1
        IN  IF j % 2 = 0 THEN rowA[a] ELSE rowB[a]]

\* the inputs for one canvas and one row width: the anchor dimension is the
\* number of cells, one less or one more, and cpuData has that many rows or
\* one more
DecodeInputs(canvas, c) ==
    { [cpuData |-> FlatRows(w + extra, c, rowA, rowB),
       dims |-> <<1, w, c>>,
       imageSize |-> canvas] :
        w \in { Len(FlatGrids(canvas)) + d : d \in {-1, 0, 1} }, extra \in {0, 1},
        rowA \in RowPool(c), rowB \in RowPool(c) }

InitDecode ==
    /\ OcrInit
    /\ DetIdle
    /\ fn = "_postProcess"
    /\ stage = "call"
    /\ \E canvas \in Canvases, c \in {6, 7} : args \in DecodeInputs(canvas, c)
    /\ ret = <<>>

\* _postProcess: predictions = this._demoPostProcess(cpuData, dims, inputSize)
DemoPostProcessCall ==
    /\ fn = "_postProcess"
    /\ stage = "call"
    /\ LET r == DemoPostProcess(args.cpuData, args.dims, args.imageSize)
       IN  /\ ret' = r @@ [scores |-> <<>>]
           /\ stage' = IF r.outcome = "throw" THEN "throw" ELSE "decoded"
    /\ UNCHANGED <<fn, args, ocrVars, detVars>>

\* _postProcess: boxes and scores are sliced from predictions
PostProcessScores ==
    /\ fn = "_postProcess"
    /\ stage = "decoded"
    /\ ret' = [ret EXCEPT !.scores = Scores(ret.predictions)]
    /\ stage' = "scored"
    /\ UNCHANGED <<fn, args, ocrVars, detVars>>

NextDecode ==
    \/ DemoPostProcessCall
    \/ PostProcessScores

SpecDecode == InitDecode /\ [][NextDecode]_vars

----------------------------------------------------------------------------
(* Specifications: an OCRBase instance under any sequence of calls, and one  *)
(* call of the detection post-processing on any input.                      *)

Init == OcrInit /\ DetIdle /\ FnIdle

Next ==
    \/ \E str \in CustomStrings : SetValidCharSet(str)
    \/ \E str \in CustomStrings : SetInValidCharset(str)
    \/ \E x \in RangeArgs : SetRanges(x)
    \/ \E data \in ArgmaxInputs, cs \in Charsets : PostProcess(data, cs)

Spec == Init /\ [][Next]_vars

InitDet == OcrInit /\ DetCall /\ FnIdle

NextDet ==
    \/ MulticlassNmsFilter
    \/ NmsRound
    \/ NmsReturn

SpecDet == InitDet /\ [][NextDet]_vars

----------------------------------------------------------------------------
(* Properties of OCRBase *)

Digits == {"0", "1", "2", "3", "4", "5", "6", "7", "8", "9"}

Lower ==
    {"a", "b", "c", "d", "e", "f", "g", "h", "i", "j", "k", "l", "m",
     "n", "o", "p", "q", "r", "s", "t", "u", "v", "w", "x", "y", "z"}

Upper ==
    {"A", "B", "C", "D", "E", "F", "G", "H", "I", "J", "K", "L", "M",
     "N", "O", "P", "Q", "R", "S", "T", "U", "V", "W", "X", "Y", "Z"}

\* the element before position k of the index sequence (0 before the first)
Previous(data, k) == IF k = 1 THEN 0 ELSE data[k - 1]

\* position k of the index sequence contributes its character
Emits(valid, invalid, data, cs, k) ==
    /\ data[k] # Previous(data, k)
    /\ data[k] # 0
    /\ IsValidChar(valid, invalid, cs[data[k] + 1])

\* the characters of the positions 1..n that contribute, in order
RECURSIVE Collapsed(_, _, _, _, _)
Collapsed(valid, invalid, data, cs, n) ==
    IF n = 0 THEN <<>>
    ELSE Collapsed(valid, invalid, data, cs, n - 1)
            \o (IF Emits(valid, invalid, data, cs, n) THEN cs[data[n] + 1] ELSE <<>>)

Decoded == op = "postProcess"

\* C1: a decode returns the concatenation, in order, of charset[seq[i]] over
\* the positions i where seq[i] differs from seq[i-1] (0 for the first), is
\* not the blank and is admissible; so the last index follows every change,
\* also one to a blank or to a rejected character.
C1_DecodeIsCollapse ==
    Decoded =>
        result = Collapsed(validCharSet, inValidCharSet, argmaxData, charset,
                           Len(argmaxData))

\* a decode that emitted something, in which a character was rejected right
\* before a different index, and in which a blank followed a character
C1_Witness ==
    /\ Decoded
    /\ Len(result) > 0
    /\ \E k \in 1..(Len(argmaxData) - 1) :
          /\ argmaxData[k] # Previous(argmaxData, k)
          /\ argmaxData[k] # 0
          /\ ~IsValidChar(validCharSet, inValidCharSet, charset[argmaxData[k] + 1])
          /\ Emits(validCharSet, inValidCharSet, argmaxData, charset, k + 1)
          /\ argmaxData[k + 1] = Previous(argmaxData, k)

Unrestricted == validCharSet = {} /\ inValidCharSet = {}

ExampleDecoded ==
    Decoded /\ Unrestricted /\ argmaxData = ExampleSeq /\ charset = CharsetA

\* C2 as stated: unrestricted, [0,0,3,3,0,5,5,5,3] with 3 -> 'c', 5 -> 'e'
\* decodes to "ce".
C2_ExampleIsCe == ExampleDecoded => result = <<"c", "e">>

\* C2 as amended: unrestricted, [0,0,3,3,0,5,5,5,3] with 3 -> 'c', 5 -> 'e'
\* decodes to "cec": the final 3 follows a 5, so it is emitted again.
C2_ExampleIsCec == ExampleDecoded => result = <<"c", "e", "c">>

C2_Witness == ExampleDecoded /\ Len(result) = 3

\* C3: every character of a decoded string is outside the invalid set and is
\* in the valid set unless the valid set is empty; a character in both sets
\* is never emitted.
C3_OutputAdmissible ==
    Decoded =>
        \A k \in 1..Len(result) :
            /\ result[k] \notin inValidCharSet
            /\ (validCharSet = {} \/ result[k] \in validCharSet)

\* a decode that emitted something although a character of both sets was a
\* fresh non-blank index of its input
C3_Witness ==
    /\ Decoded
    /\ Len(result) > 0
    /\ \E k \in 1..Len(argmaxData) :
          /\ argmaxData[k] # Previous(argmaxData, k)
          /\ argmaxData[k] # 0
          /\ Has(validCharSet \cap inValidCharSet, charset[argmaxData[k] + 1])

\* C4 as stated: after setRanges(7) the valid set is empty and the invalid
\* set is lowercase + uppercase + digits, whatever calls came before.
C4_Code7ResetsValid ==
    (op = "setRanges" /\ arg = JsNumber(7)) =>
        /\ validCharSet = {}
        /\ inValidCharSet = Lower \cup Upper \cup Digits

\* the set the documentation gives for a code 0..6 or a string
DocumentedValid(x) ==
    IF x.t = "string" THEN {x.s[k] : k \in 1..Len(x.s)}
    ELSE CASE x.n = 0 -> Digits
           [] x.n = 1 -> Lower
           [] x.n = 2 -> Upper
           [] x.n = 3 -> Lower \cup Upper
           [] x.n = 4 -> Lower \cup Digits
           [] x.n = 5 -> Upper \cup Digits
           [] x.n = 6 -> Lower \cup Upper \cup Digits

SelectsValid(x) == x.t = "string" \/ (x.t = "number" /\ x.n \in 0..6)

\* C5: after setRanges(x) with x a code 0..6 or a string, the valid set is
\* the set x alone determines, whatever the valid set was before.
C5_ValidFromArgAlone ==
    (op = "setRanges" /\ SelectsValid(arg)) =>
        (~threw /\ validCharSet = DocumentedValid(arg))

\* setRanges("ab3") returned while an invalid set was configured
C5_Witness ==
    /\ op = "setRanges"
    /\ arg = JsString(ExampleStr)
    /\ validCharSet = {"a", "b", "3"}
    /\ inValidCharSet # {}

Unsupported(x) ==
    \/ x.t = "number" /\ x.n \notin 0..7
    \/ x.t \notin {"number", "string"}

\* C6: setRanges throws for every number outside 0..7 and for every argument
\* that is neither a number nor a string, and such a call leaves the valid set
\* and the invalid set as they were.
C6_UnsupportedThrows ==
    [][(op' = "setRanges" /\ Unsupported(arg')) =>
          /\ threw'
          /\ validCharSet' = validCharSet
          /\ inValidCharSet' = inValidCharSet]_vars

\* setRanges(99) threw on an instance with both sets configured
C6_Witness ==
    /\ op = "setRanges"
    /\ arg = JsNumber(99)
    /\ threw
    /\ validCharSet # {}
    /\ inValidCharSet # {}

TargetsValid ==
    \/ op' = "setValidCharSet"
    \/ op' = "setRanges" /\ SelectsValid(arg')

TargetsInvalid ==
    \/ op' = "setInValidCharset"
    \/ op' = "setRanges" /\ arg' = JsNumber(7)

----------------------------------------------------------------------------
(* Properties of DetectionBase *)

BoxArea(b) == (b[3] - b[1] + 1) * (b[4] - b[2] + 1)

BoxInter(a, b) ==
    Max(0, Min(a[3], b[3]) - Max(a[1], b[1]) + 1)
        * Max(0, Min(a[4], b[4]) - Max(a[2], b[2]) + 1)

\* the intersection over union of boxes a and b, each with its own area, is
\* above the fraction thr
IoUAbove(a, b, thr) ==
    BoxInter(a, b) * thr[2] > thr[1] * (BoxArea(a) + BoxArea(b) - BoxInter(a, b))

Returned == pc = "done"

\* the boxes at the indices _nms returned
KeptBox(k) == validBoxes[keep[k] + 1]

\* C7 as stated: no two distinct boxes among those whose indices _nms returns
\* have an IoU above nmsThr; of two identical boxes with scores 0.9 and 0.8
\* and threshold 0.45 only the 0.9 box is kept.
C7_KeptDoNotOverlap ==
    Returned =>
        /\ \A a, b \in 1..Len(keep) :
              a # b => ~IoUAbove(KeptBox(a), KeptBox(b), nmsThr)
        /\ (/\ Len(validBoxes) = 2
            /\ validBoxes[1] = validBoxes[2]
            /\ validScores = <<90, 80>>
            /\ nmsThr = NmsThrDefault) => keep = <<0>>

\* C8 as stated: a box list with all scores above the score threshold and no
\* two boxes with IoU above the IoU threshold comes back whole.
C8_Idempotent ==
    (/\ Returned
     /\ \A i \in 1..Len(scores) : scores[i] > ScoreThr
     /\ \A i, j \in 1..Len(boxes) :
           i # j => ~IoUAbove(boxes[i], boxes[j], nmsThr)) =>
        /\ Len(detections) = Len(boxes)
        /\ Range(detections) = Range(boxes)

ScoreOf(i) == validScores[i + 1]

\* C9: the list _nms returns has no duplicates, holds only indices of its
\* input, starts with the index of the highest score when the input is not
\* empty, and is in descending score order, equal scores in index order.
C9_KeepOrdered ==
    Returned =>
        /\ \A a, b \in 1..Len(keep) : a # b => keep[a] # keep[b]
        /\ \A a \in 1..Len(keep) : keep[a] \in 0..(Len(validScores) - 1)
        /\ Len(validScores) > 0 =>
              /\ Len(keep) > 0
              /\ \A j \in 0..(Len(validScores) - 1) :
                    \/ ScoreOf(keep[1]) > ScoreOf(j)
                    \/ ScoreOf(keep[1]) = ScoreOf(j) /\ keep[1] <= j
        /\ \A a, b \in 1..Len(keep) :
              a < b =>
                  \/ ScoreOf(keep[a]) > ScoreOf(keep[b])
                  \/ ScoreOf(keep[a]) = ScoreOf(keep[b]) /\ keep[a] < keep[b]

\* _nms suppressed a box and returned two indices with equal scores, the
\* highest score not at input index 0
C9_Witness ==
    /\ Returned
    /\ Len(keep) < Len(validBoxes)
    /\ keep[1] # 0
    /\ \E a, b \in 1..Len(keep) : a < b /\ ScoreOf(keep[a]) = ScoreOf(keep[b])

\* the input positions whose score is strictly above the score threshold
Survivors == {i \in 1..Len(scores) : scores[i] > ScoreThr}

\* the k-th of them, in input order
Survivor(k) == CHOOSE i \in Survivors : Cardinality({j \in Survivors : j < i}) = k - 1

\* C10: the wrapper hands to _nms exactly the (box, score) pairs with score
\* strictly above scoreThr, every box it returns is the surviving box at a
\* kept index, and with no score above the threshold it returns an empty
\* list.
C10_WrapperFilters ==
    /\ pc \in {"loop", "done"} =>
          /\ Len(validScores) = Cardinality(Survivors)
          /\ Len(validBoxes) = Cardinality(Survivors)
          /\ \A k \in 1..Len(validScores) :
                /\ validScores[k] = scores[Survivor(k)]
                /\ validBoxes[k] = boxes[Survivor(k)]
    /\ Returned =>
          /\ Len(detections) = Len(keep)
          /\ \A k \in 1..Len(detections) :
                /\ keep[k] + 1 \in 1..Cardinality(Survivors)
                /\ detections[k] = boxes[Survivor(keep[k] + 1)]
    /\ (Survivors = {} /\ pc \in {"loop", "done"}) =>
          order = <<>> /\ keep = <<>> /\ detections = <<>>

\* the wrapper returned boxes after dropping a score equal to the threshold
C10_Witness ==
    /\ Returned
    /\ Len(detections) >= 2
    /\ \E i \in 1..Len(scores) : scores[i] = ScoreThr

\* the candidates of a round other than the best: order[1..] in JavaScript
Candidates == {order[k] : k \in 2..Len(order)}

\* C16: in each round of _nms, with i the highest-scoring remaining index, a
\* remaining candidate j stays for the next round exactly when the IoU of
\* boxes i and j, each with its own area, is at most nmsThr.
C16_RetainedIffIoUAtMost ==
    [][(pc = "loop" /\ Len(order) > 0 /\ keep' = Append(keep, order[1])) =>
          {order'[k] : k \in 1..Len(order')} =
              {j \in Candidates :
                  ~IoUAbove(validBoxes[order[1] + 1], validBoxes[j + 1], nmsThr)}]_vars

----------------------------------------------------------------------------
(* Properties of _parseToXyxy *)

\* x with its fraction dropped
Trunc(x) == IF x.neg THEN -x.whole ELSE x.whole

Clipped == fn = "_parseToXyxy" /\ stage = "return"

\* C11 as stated: clipping returns x1' = 0 if x1 < 0 else trunc(x1), y1' = 0
\* if y1 < 0 else trunc(y1), x2' = width if x2 > width else trunc(x2), y2' =
\* height if y2 > height else trunc(y2); [-5,-5,500,500] against (416,416)
\* becomes [0,0,416,416].
C11_ClipTruncates ==
    Clipped =>
        /\ Len(ret) = Len(args.prediction)
        /\ \A i \in 1..Len(ret) :
              LET b == args.prediction[i]
              IN  /\ ret[i][1] = IF LessThanZero(b[1]) THEN 0 ELSE Trunc(b[1])
                  /\ ret[i][2] = IF LessThanZero(b[2]) THEN 0 ELSE Trunc(b[2])
                  /\ ret[i][3] = IF GreaterThan(b[3], args.width) THEN args.width
                                 ELSE Trunc(b[3])
                  /\ ret[i][4] = IF GreaterThan(b[4], args.height) THEN args.height
                                 ELSE Trunc(b[4])

\* C12 as stated: every box the clipping returns has x1 <= x2 and y1 <= y2,
\* for decoded boxes that have x1 <= x2 and y1 <= y2 and any image size.
C12_ClippedOrdered ==
    Clipped =>
        \A i \in 1..Len(ret) : ret[i][1] <= ret[i][3] /\ ret[i][2] <= ret[i][4]

----------------------------------------------------------------------------
(* Properties of _calcBbox *)

\* the fractions of q are the whole numbers of w, place by place
EqualsWhole(q, w) == \A c \in 1..4 : q[c][1] = w[c] * q[c][2]

ExampleBox == <<100, 100, 40, 20>>

\* a returned call with ratio 0.5 whose i-th box is (cx=100, cy=100, w=40, h=20)
ExampleAt(i) ==
    /\ fn = "_calcBbox"
    /\ stage = "return"
    /\ args.ratio = <<1, 2>>
    /\ i \in 1..Len(args.boxes)
    /\ args.boxes[i] = ExampleBox

\* C13 as stated: with ratio 0.5, (cx=100, cy=100, w=40, h=20) is
\* (160,180,240,220) before the division by ratio and (320,360,480,440) after.
C13_ExampleCornersDoubled ==
    \A i \in 1..Len(args.boxes) :
        ExampleAt(i) =>
            /\ EqualsWhole(CornerForm(args.boxes[i]), <<160, 180, 240, 220>>)
            /\ EqualsWhole(ret[i], <<320, 360, 480, 440>>)

\* C13 as amended: with ratio 0.5, (cx=100, cy=100, w=40, h=20) is
\* (80,90,120,110) before the division by ratio and (160,180,240,220) after.
C13_ExampleCorners ==
    \A i \in 1..Len(args.boxes) :
        ExampleAt(i) =>
            /\ EqualsWhole(CornerForm(args.boxes[i]), <<80, 90, 120, 110>>)
            /\ EqualsWhole(ret[i], <<160, 180, 240, 220>>)

C13_Witness == ExampleAt(1) /\ Len(ret) = Len(args.boxes)

----------------------------------------------------------------------------
(* Properties of _demoPostProcess and of the scores of _postProcess *)

AnchorsDecoded == fn = "_postProcess" /\ stage \in {"decoded", "scored"}

Scored == fn = "_postProcess" /\ stage = "scored"

\* the largest class probability of an anchor row (attributes 5 onwards, from 0)
BestClassProbability(row) ==
    CHOOSE v \in {row[a] : a \in 6..Len(row)} :
        \A a \in 6..Len(row) : row[a] <= v

\* C14: the score of each anchor is its objectness multiplied by the largest
\* class probability among all the class columns of its row.
C14_ScoreIsBestClass ==
    Scored =>
        /\ Len(ret.scores) = Len(ret.predictions)
        /\ \A j \in 1..Len(ret.predictions) :
              ret.scores[j] =
                  ret.predictions[j][5] * BestClassProbability(ret.predictions[j])

\* the number of grid cells generated for a canvas over strides 8, 16, 32
CellCount(imageSize, s) == (imageSize[1] \div s) * (imageSize[2] \div s)

Cells(imageSize) ==
    CellCount(imageSize, 8) + CellCount(imageSize, 16) + CellCount(imageSize, 32)

Mismatch ==
    \/ Len(args.cpuData) # args.dims[1] * args.dims[2] * args.dims[3]
    \/ args.dims[2] # Cells(args.imageSize)

\* C15: when dims do not match the data or the grid of the canvas, decoding
\* reports a shape mismatch before any anchor row is indexed, reads nothing
\* out of bounds and returns no boxes.  (The error tf.reshape throws on an
\* element count that differs from the product of dims counts as that report.)
C15_MismatchReported ==
    (fn = "_postProcess" /\ stage # "call" /\ Mismatch) =>
        /\ stage = "throw"
        /\ ret.outcome = "throw"
        /\ ret.error = "shape"
        /\ ret.rowsIndexed = 0
        /\ ~ret.outOfBounds
        /\ ret.predictions = <<>>

\* the j-th cell (j from 0) of the list that concatenates, for strides 8, 16,
\* 32, the cells of each stride in row-major order
CellAt(imageSize, j) ==
    LET n8 == CellCount(imageSize, 8)
        n16 == CellCount(imageSize, 16)
        s == IF j < n8 THEN 8 ELSE IF j < n8 + n16 THEN 16 ELSE 32
        k == IF j < n8 THEN j ELSE IF j < n8 + n16 THEN j - n8 ELSE j - n8 - n16
        wsize == imageSize[2] \div s
    IN  [stride |-> s, gridX |-> k % wsize, gridY |-> k \div wsize]

\* C17: anchor row j is paired with the j-th cell of the concatenated list;
\* its centre becomes ((cx + gridX) * stride, (cy + gridY) * stride) with that
\* cell's stride, and its objectness and class columns are unchanged.
C17_RowPairedWithCell ==
    AnchorsDecoded =>
        /\ Len(ret.predictions) = args.dims[2]
        /\ \A j \in 1..Len(ret.predictions) :
              LET cell == CellAt(args.imageSize, j - 1)
                  row == [a \in 1..args.dims[3] |->
                             args.cpuData[(j - 1) * args.dims[3] + a]]
                  out == ret.predictions[j]
              IN  /\ out[1] = (row[1] + cell.gridX) * cell.stride
                  /\ out[2] = (row[2] + cell.gridY) * cell.stride
                  /\ \A a \in 5..args.dims[3] : out[a] = row[a]

\* a canvas that is not square, with cells of all three strides, fully decoded
C17_Witness ==
    /\ fn = "_postProcess"
    /\ stage = "decoded"
    /\ args.imageSize = <<32, 40>>
    /\ args.dims[2] = Cells(args.imageSize)
    /\ Len(ret.predictions) = 25
    /\ ret.predictions[25][1] = (args.cpuData[24 * args.dims[3] + 1] + 0) * 32
    /\ ret.predictions[7][2] # ret.predictions[5][2]

====
